---- MODULE Spec2Model ----
(***************************************************************************)
(* A model of the PDF extraction backend: the structural classifier and    *)
(* the mode policy of PDFProcessor (pdf_processor.py) and the footnote     *)
(* pipeline of WordProcessor (word_processor.py).                          *)
(*                                                                         *)
(* SpecPdf  : one process_pdf request against a file on disk.              *)
(* SpecWord : one process_to_word request on an extracted text.            *)
(* SpecExtract : extract_footnotes, then the stripping, on a raw text.     *)
(* SpecStrip : remove_footnote_content_from_main on a text and a map.      *)
(* SpecCalls : two process_to_word calls through the shared processor.     *)
(* SpecServer : one request to a handler of server.py with a temp file.    *)
(***************************************************************************)
EXTENDS Integers, Sequences, FiniteSets, TLC

VARIABLES
    file,        \* the PDF on disk a request names: existence, readability, pages
    request,     \* the process_pdf request: mode, auto_detect; pc of the call
    detection,   \* what detect_pdf_type computed for the request
    outcome,     \* what process_pdf did: resolved mode, engines invoked, result
    text,        \* the markdown handed to process_to_word
    word,        \* what process_to_word computed and returned
    strip,       \* a direct call of the two footnote functions: map and text
    calls,       \* two process_to_word calls through the shared processor
    disk,        \* the files of the outputs directory: path and document
    server       \* a request handler of server.py and its temporary file

vars ==
    <<file, request, detection, outcome, text, word, strip, calls, disk, server>>

(***************************************************************************)
(* Bounds of the model.                                                    *)
(***************************************************************************)
\* page counts 0..DensePages are all modelled
DensePages == 44
\* beyond DensePages, the page counts next to a multiple of 20, up to MaxPages
MaxPages == 220
\* a document's layout repeats every Period pages
Period == 4
\* a markdown text is made of at most MaxPieces pieces
MaxPieces == 3
\* each of two concurrent calls gets a text of at most CallPieces pieces
CallPieces == 1

(***************************************************************************)
(* Exact fractions: the ratios and coverages of the classifier are         *)
(* quotients of integers and are compared with decimal thresholds.         *)
(***************************************************************************)
Frac(n, d) == [num |-> n, den |-> d]
FracGt(a, b) == a.num * b.den > b.num * a.den
FracLt(a, b) == a.num * b.den < b.num * a.den
FracSum3IsOne(a, b, c) ==
    a.num * b.den * c.den + b.num * a.den * c.den + c.num * a.den * b.den
        = a.den * b.den * c.den

Min(a, b) == IF a <= b THEN a ELSE b
Max(a, b) == IF a >= b THEN a ELSE b

(***************************************************************************)
(* ProcessingMode, and the engine each mode selects.                       *)
(***************************************************************************)
FAST == "fast"
RICH == "rich"
PRO == "pro"
ProcessingMode == {FAST, RICH, PRO}

(***************************************************************************)
(* Pages as fitz exposes them: the page rectangle's area, the content      *)
(* blocks (tuple length, rectangle area, type tag, blank text or not), the *)
(* number of fonts, and whether reading the page raises.                   *)
(***************************************************************************)
Block(len, area, type, blank) ==
    [len |-> len, area |-> area, block_type |-> type, blank |-> blank]

\* a scanned page: one image over 90% of the page, no font
ScannedPage ==
    [page_area |-> 100, blocks |-> <<Block(7, 90, 1, TRUE)>>, fonts |-> 0,
     raises |-> FALSE]
\* a typeset page: text over half of the page, a small figure, two fonts
TypesetPage ==
    [page_area |-> 100,
     blocks |-> <<Block(7, 30, 0, FALSE), Block(7, 20, 0, FALSE),
                  Block(7, 10, 0, TRUE), Block(7, 10, 1, TRUE)>>,
     fonts |-> 2, raises |-> FALSE]
\* a page on the thresholds: image coverage exactly 0.8, text coverage exactly 0.05
BorderPage ==
    [page_area |-> 100,
     blocks |-> <<Block(7, 80, 1, TRUE), Block(7, 5, 0, FALSE),
                  Block(5, 50, 0, FALSE)>>,
     fonts |-> 1, raises |-> FALSE]
\* a page whose content stream cannot be read
DamagedPage ==
    [page_area |-> 100, blocks |-> <<>>, fonts |-> 0, raises |-> TRUE]

PageKinds == {"scanned", "typeset", "border", "damaged"}
PageOfKind(kind) ==
    CASE kind = "scanned" -> ScannedPage
      [] kind = "typeset" -> TypesetPage
      [] kind = "border" -> BorderPage
      [] OTHER -> DamagedPage

TotalPages ==
    (0 .. DensePages) \cup
    {p \in DensePages .. MaxPages : p % 20 \in {0, 1, 10, 19}}

Layouts == [0 .. Period - 1 -> PageKinds]

\* doc[idx]
PageAt(doc, idx) == PageOfKind(doc.layout[idx % Period])

\* no file at the path, and a file that fitz cannot open
MissingFile ==
    [present |-> FALSE, opens |-> FALSE, total_pages |-> 0,
     layout |-> [i \in 0 .. Period - 1 |-> "damaged"]]
UnreadableFile == [MissingFile EXCEPT !.present = TRUE]

Files ==
    [present : {TRUE}, opens : {TRUE}, total_pages : TotalPages, layout : Layouts]
    \cup {MissingFile, UnreadableFile}

(***************************************************************************)
(* detect_pdf_type                                                         *)
(***************************************************************************)
image_threshold == Frac(8, 10)
text_threshold == Frac(5, 100)
no_text_threshold == Frac(1, 100)
majority == Frac(6, 10)

\* text_area / image_area of one page: the loop over page.get_text("blocks")
RECURSIVE BlockAreas(_, _, _)
BlockAreas(blocks, text_area, image_area) ==
    IF blocks = <<>> THEN [text_area |-> text_area, image_area |-> image_area]
    ELSE LET block == Head(blocks) IN
         IF block.len > 6
         THEN IF block.block_type = 0
              THEN BlockAreas(Tail(blocks),
                              IF ~block.blank THEN text_area + block.area
                                               ELSE text_area,
                              image_area)
              ELSE IF block.block_type = 1
                   THEN BlockAreas(Tail(blocks), text_area, image_area + block.area)
                   ELSE BlockAreas(Tail(blocks), text_area, image_area)
         ELSE BlockAreas(Tail(blocks), text_area, image_area)

Coverage(area, page_area) ==
    IF page_area > 0 THEN Frac(area, page_area) ELSE Frac(0, 1)

\* the per-page classification: "image", "text" or "ambiguous"
ClassifyPage(page) ==
    LET areas == BlockAreas(page.blocks, 0, 0)
        text_coverage == Coverage(areas.text_area, page.page_area)
        image_coverage == Coverage(areas.image_area, page.page_area)
        has_fonts == page.fonts > 0
    IN  IF FracGt(image_coverage, image_threshold)
           \/ (FracLt(text_coverage, no_text_threshold) /\ ~has_fonts)
        THEN "image"
        ELSE IF FracGt(text_coverage, text_threshold) /\ has_fonts
             THEN "text"
             ELSE "ambiguous"

SampleSizeTenth(total_pages) == Min(10, Max(1, total_pages \div 10))
SampleSize(total_pages) == Min(10, Max(1, total_pages \div 20))

SampleIndexShifted(i, total_pages, sample_size) ==
    ((i + 1) * total_pages) \div sample_size
SampleIndex(i, total_pages, sample_size) == (i * total_pages) \div sample_size

SampleIndices(total_pages, sample_size) ==
    [k \in 1 .. sample_size |-> SampleIndex(k - 1, total_pages, sample_size)]

NoCounts ==
    [image_pages |-> 0, text_pages |-> 0, ambiguous_pages |-> 0,
     read |-> <<>>, raised |-> FALSE]

\* the loop over sample_indices; a page that raises ends the loop
RECURSIVE SampleLoop(_, _, _)
SampleLoop(doc, indices, acc) ==
    IF indices = <<>> THEN acc
    ELSE LET idx == Head(indices) IN
         IF idx >= doc.total_pages THEN SampleLoop(doc, Tail(indices), acc)
         ELSE LET page == PageAt(doc, idx)
                  seen == [acc EXCEPT !.read = Append(@, idx)]
              IN  IF page.raises THEN [seen EXCEPT !.raised = TRUE]
                  ELSE LET class == ClassifyPage(page) IN
                       SampleLoop(doc, Tail(indices),
                           CASE class = "image" ->
                                  [seen EXCEPT !.image_pages = @ + 1]
                             [] class = "text" ->
                                  [seen EXCEPT !.text_pages = @ + 1]
                             [] OTHER ->
                                  [seen EXCEPT !.ambiguous_pages = @ + 1])

Undetected(pdf_type, opened, total_pages, raised) ==
    [pdf_type |-> pdf_type, opened |-> opened, raised |-> raised,
     total_pages |-> total_pages, sample_size |-> 0, sample_indices |-> <<>>,
     image_pages |-> 0, text_pages |-> 0, ambiguous_pages |-> 0, read |-> <<>>,
     image_ratio |-> Frac(0, 1), text_ratio |-> Frac(0, 1),
     ambiguous_ratio |-> Frac(0, 1)]

ZeroPagesSampled(doc) ==
    [Undetected("mixed", TRUE, 0, FALSE) EXCEPT
        !.sample_size = 1, !.sample_indices = <<0>>]
ZeroPages(doc) == Undetected("unknown", TRUE, 0, FALSE)

MajorityDecisionAtLeast(image_ratio, text_ratio) ==
    IF ~FracLt(image_ratio, majority) THEN "image_based"
    ELSE IF ~FracLt(text_ratio, majority) THEN "text_based"
    ELSE "mixed"

MajorityDecision(image_ratio, text_ratio) ==
    IF FracGt(image_ratio, majority) THEN "image_based"
    ELSE IF FracGt(text_ratio, majority) THEN "text_based"
    ELSE "mixed"

detect_pdf_type(doc) ==
    IF ~doc.opens THEN Undetected("unknown", FALSE, 0, TRUE)
    ELSE IF doc.total_pages = 0 THEN ZeroPages(doc)
    ELSE
    LET total_pages == doc.total_pages
        sample_size == SampleSize(total_pages)
        sample_indices == SampleIndices(total_pages, sample_size)
        counts == SampleLoop(doc, sample_indices, NoCounts)
        image_ratio == Frac(counts.image_pages, Max(sample_size, 1))
        text_ratio == Frac(counts.text_pages, Max(sample_size, 1))
        ambiguous_ratio == Frac(counts.ambiguous_pages, Max(sample_size, 1))
    IN  [pdf_type |-> IF counts.raised THEN "unknown"
                      ELSE MajorityDecision(image_ratio, text_ratio),
         opened |-> TRUE, raised |-> counts.raised,
         total_pages |-> total_pages, sample_size |-> sample_size,
         sample_indices |-> sample_indices,
         image_pages |-> counts.image_pages, text_pages |-> counts.text_pages,
         ambiguous_pages |-> counts.ambiguous_pages, read |-> counts.read,
         image_ratio |-> image_ratio, text_ratio |-> text_ratio,
         ambiguous_ratio |-> ambiguous_ratio]

(***************************************************************************)
(* process_pdf                                                             *)
(***************************************************************************)
NotDetected == Undetected("not_run", FALSE, 0, FALSE)

\* the extraction engine behind each mode (PDFParsers)
Engine(mode) ==
    CASE mode = FAST -> "pdfplumber"
      [] mode = RICH -> "markitdown"
      [] OTHER -> "agentic_doc"

\* what an engine call can do: return a success dict, return a failure dict,
\* or let an exception escape the result handling
EngineOutcomes == {"ok", "failed", "raised"}

Result(success, error, pdf_type, requires_upgrade, recommended_mode, method) ==
    [success |-> success, error |-> error, pdf_type |-> pdf_type,
     requires_upgrade |-> requires_upgrade,
     recommended_mode |-> recommended_mode, method |-> method]

FileNotFound == Result(FALSE, "file_not_found", "absent", FALSE, "absent", "absent")
UpgradeRequired(pdf_type) ==
    Result(FALSE, "cannot_process", pdf_type, TRUE, "pro", "absent")
EngineResult(mode, engine_outcome) ==
    CASE engine_outcome = "ok" ->
           Result(TRUE, "none", "absent", FALSE, "absent", Engine(mode))
      [] engine_outcome = "failed" ->
           Result(FALSE, "engine_error", "absent", FALSE, "absent", "absent")
      [] OTHER ->
           Result(FALSE, "unexpected_error", "absent", FALSE, "absent", "absent")

\* the validation gate: FAST/RICH against image_based/mixed
BlockedImageOnly(mode, pdf_type) ==
    mode \in {FAST, RICH} /\ pdf_type = "image_based"
BlockedMixedOnly(mode, pdf_type) ==
    mode \in {FAST, RICH} /\ pdf_type = "mixed"
BlockedUnlessText(mode, pdf_type) ==
    mode \in {FAST, RICH} /\ pdf_type # "text_based"
Blocked(mode, pdf_type) ==
    mode \in {FAST, RICH} /\ pdf_type \in {"image_based", "mixed"}

AutoDetectDowngrade(mode, pdf_type, auto_detect) ==
    IF pdf_type = "image_based" /\ mode # PRO THEN PRO
    ELSE IF pdf_type = "text_based" /\ mode = PRO THEN FAST
    ELSE mode

\* the auto-detection step: the mode the engines are selected by
AutoDetect(mode, pdf_type, auto_detect) ==
    IF auto_detect /\ pdf_type = "image_based" /\ mode # PRO THEN PRO ELSE mode

\* the informational note of the auto-detection step
AutoDetectNote(mode, pdf_type, auto_detect) ==
    IF auto_detect /\ pdf_type = "image_based" /\ mode # PRO THEN "switched_to_pro"
    ELSE IF auto_detect /\ pdf_type = "text_based" /\ mode = PRO THEN "pro_overkill"
    ELSE "none"

Idle == [pc |-> "idle", mode |-> "none", auto_detect |-> FALSE]
NoOutcome ==
    [resolved_mode |-> "none", engines |-> <<>>, note |-> "none",
     result |-> Result(FALSE, "none", "absent", FALSE, "absent", "absent")]

\* process_pdf from the validation gate on, `found` being the classification
ProcessPdfBody(found, mode, auto_detect, engine_outcome) ==
    /\ request' = [pc |-> "done", mode |-> mode, auto_detect |-> auto_detect]
    /\ detection' = found
    /\ IF ~file.present
       THEN outcome' = [NoOutcome EXCEPT !.result = FileNotFound]
       ELSE IF Blocked(mode, found.pdf_type)
       THEN outcome' =
                [NoOutcome EXCEPT !.result = UpgradeRequired(found.pdf_type)]
       ELSE LET resolved == AutoDetect(mode, found.pdf_type, auto_detect) IN
            outcome' =
                [resolved_mode |-> resolved,
                 engines |-> <<Engine(resolved)>>,
                 note |-> AutoDetectNote(mode, found.pdf_type, auto_detect),
                 result |-> EngineResult(resolved, engine_outcome)]

\* one call process_pdf(file_path, mode, auto_detect): the classification does
\* not depend on the request, so it is computed once for all requests
process_pdf ==
    /\ request.pc = "idle"
    /\ LET found == IF file.present THEN detect_pdf_type(file) ELSE NotDetected
       IN  \E mode \in ProcessingMode, auto_detect \in BOOLEAN,
              engine_outcome \in EngineOutcomes :
               ProcessPdfBody(found, mode, auto_detect, engine_outcome)
    /\ UNCHANGED <<file, text, word, strip, calls, disk, server>>

(***************************************************************************)
(* Text: a sequence of characters.  A character is a one-symbol string;    *)
(* the Arabic-Indic digits U+0660..U+0669 are written "ar0".."ar9", the    *)
(* invisible marks U+200E, U+200F, U+202A..U+202E by their Unicode names.  *)
(***************************************************************************)
NL == "\n"
SP == " "
arabic_digits == <<"ar0", "ar1", "ar2", "ar3", "ar4", "ar5", "ar6", "ar7", "ar8", "ar9">>
western_digits == <<"0", "1", "2", "3", "4", "5", "6", "7", "8", "9">>
InvisibleMarks == {"lrm", "rlm", "lre", "rle", "pdf", "lro", "rlo"}

Range(f) == {f[x] : x \in DOMAIN f}

\* \d of a str pattern: every Unicode decimal digit
IsDigit(c) == c \in Range(western_digits) \cup Range(arabic_digits)
\* \s
IsSpace(c) == c \in {SP, NL}
\* [\u0600-\u06FF], which holds the Arabic-Indic digits
IsArabic(c) == c \in Range(arabic_digits) \cup {"alef"}

RECURSIVE SkipSpace(_, _)
\* the first index from i on that holds no whitespace (Len(s) + 1 if none)
SkipSpace(s, i) ==
    IF i <= Len(s) /\ IsSpace(s[i]) THEN SkipSpace(s, i + 1) ELSE i

RECURSIVE SkipDigits(_, _)
SkipDigits(s, i) ==
    IF i <= Len(s) /\ IsDigit(s[i]) THEN SkipDigits(s, i + 1) ELSE i

RECURSIVE SkipChar(_, _, _)
\* the first index from i on that does not hold c
SkipChar(s, i, c) ==
    IF i <= Len(s) /\ s[i] = c THEN SkipChar(s, i + 1, c) ELSE i

RECURSIVE EndOfLine(_, _)
\* the index of the next newline from i on (Len(s) + 1 if none)
EndOfLine(s, i) ==
    IF i <= Len(s) /\ s[i] # NL THEN EndOfLine(s, i + 1) ELSE i

\* s[i .. i + Len(pat) - 1] = pat
StartsWithAt(s, i, pat) ==
    /\ i + Len(pat) - 1 <= Len(s)
    /\ \A k \in 1 .. Len(pat) : s[i + k - 1] = pat[k]

Unstripped(s) == s
\* str.strip()
Strip(s) ==
    LET first == SkipSpace(s, 1)
        keep == {k \in 1 .. Len(s) : ~IsSpace(s[k])}
    IN  IF keep = {} THEN <<>>
        ELSE SubSeq(s, first, CHOOSE k \in keep : \A j \in keep : j <= k)

RECURSIVE SquashRuns(_, _, _, _, _)
\* re.sub(c{least,}, c * put, s): every maximal run of at least `least`
\* characters c is replaced by `put` of them
SquashRuns(s, i, c, least, put) ==
    IF i > Len(s) THEN <<>>
    ELSE IF s[i] = c
         THEN LET j == SkipChar(s, i, c) IN
              (IF j - i >= least THEN [k \in 1 .. put |-> c]
                                 ELSE SubSeq(s, i, j - 1))
                  \o SquashRuns(s, j, c, least, put)
         ELSE <<s[i]>> \o SquashRuns(s, i + 1, c, least, put)

RECURSIVE FindFrom(_, _, _)
\* str.find(pat, i): the first index from i on where pat occurs, 0 if none
FindFrom(s, i, pat) ==
    IF i + Len(pat) - 1 > Len(s) THEN 0
    ELSE IF StartsWithAt(s, i, pat) THEN i
    ELSE FindFrom(s, i + 1, pat)

RECURSIVE RemoveAllFrom(_, _, _)
\* re.sub(re.escape(pat), '', s): the occurrences of pat, left to right and
\* not overlapping, are removed in one pass; an empty pat removes nothing
RemoveAllFrom(s, i, pat) ==
    IF i > Len(s) THEN <<>>
    ELSE IF pat # <<>> /\ StartsWithAt(s, i, pat)
         THEN RemoveAllFrom(s, i + Len(pat), pat)
         ELSE <<s[i]>> \o RemoveAllFrom(s, i + 1, pat)

(***************************************************************************)
(* WordProcessor.normalize_arabic_text                                     *)
(***************************************************************************)
Translate(c) ==
    IF c \in Range(arabic_digits)
    THEN western_digits[CHOOSE i \in DOMAIN arabic_digits : arabic_digits[i] = c]
    ELSE c

normalize_arabic_text(s) ==
    LET translated == [k \in 1 .. Len(s) |-> Translate(s[k])]
    IN  SelectSeq(translated, LAMBDA c : c \notin InvisibleMarks)

(***************************************************************************)
(* WordProcessor.clean_markdown_text                                       *)
(***************************************************************************)
CommentOpen == <<"<", "!", "-", "-">>
CommentClose == <<"-", "-", ">">>

RECURSIVE RemoveComments(_, _)
\* re.sub(r'<!--.*?-->', '', s, flags=re.DOTALL)
RemoveComments(s, i) ==
    IF i > Len(s) THEN <<>>
    ELSE LET close == IF StartsWithAt(s, i, CommentOpen)
                      THEN FindFrom(s, i + Len(CommentOpen), CommentClose)
                      ELSE 0
         IN  IF close > 0 THEN RemoveComments(s, close + Len(CommentClose))
             ELSE <<s[i]>> \o RemoveComments(s, i + 1)

clean_markdown_text(s) ==
    LET no_comments == RemoveComments(s, 1)
        no_rules == SquashRuns(no_comments, 1, "-", 3, 0)
        cleaned == SquashRuns(no_rules, 1, NL, 2, 2)
    IN  Strip(cleaned)

(***************************************************************************)
(* WordProcessor.extract_footnotes                                         *)
(* footnote_pattern = ^\s*\((\d+)\)\s*(.+)$ with re.MULTILINE              *)
(***************************************************************************)
NoMatch == [ok |-> FALSE, num |-> <<>>, body |-> <<>>, end |-> 0]

\* ^ at index p
LineStart(s, p) == p = 1 \/ s[p - 1] = NL

\* the last index in from .. Len(s) that holds no newline, 0 if none: where
\* (.+) starts once the greedy \s* before it has given characters back
LastOnLine(s, from) ==
    LET on == {q \in from .. Len(s) : s[q] # NL}
    IN  IF on = {} THEN 0 ELSE CHOOSE q \in on : \A r \in on : r <= q

\* footnote_pattern matched with ^ at index p
MatchFootnoteAt(s, p) ==
    LET open == SkipSpace(s, p)
        close == SkipDigits(s, open + 1)
    IN  IF ~(open <= Len(s) /\ s[open] = "(") THEN NoMatch
        ELSE IF ~(close > open + 1 /\ close <= Len(s) /\ s[close] = ")")
        THEN NoMatch
        ELSE LET after == SkipSpace(s, close + 1)
                 start == IF after <= Len(s) THEN after
                          ELSE LastOnLine(s, close + 1)
             IN  IF start = 0 THEN NoMatch
                 ELSE [ok |-> TRUE,
                       num |-> SubSeq(s, open + 1, close - 1),
                       body |-> SubSeq(s, start, EndOfLine(s, start) - 1),
                       end |-> EndOfLine(s, start)]

\* footnotes[num] = footnote_text on a dict kept as the sequence of its items:
\* a new key is appended, a known key keeps its place and takes the new value
DictSet(items, key, value) ==
    IF \E k \in 1 .. Len(items) : items[k].num = key
    THEN [k \in 1 .. Len(items) |->
             IF items[k].num = key THEN [num |-> key, body |-> value]
             ELSE items[k]]
    ELSE Append(items, [num |-> key, body |-> value])

RECURSIVE ExtractFrom(_, _, _)
\* the loop over footnote_pattern.finditer(text), from index pos on
ExtractFrom(s, pos, footnotes) ==
    IF pos > Len(s) THEN footnotes
    ELSE LET m == IF LineStart(s, pos) THEN MatchFootnoteAt(s, pos) ELSE NoMatch
         IN  IF m.ok
             THEN ExtractFrom(s, m.end, DictSet(footnotes, m.num, Strip(m.body)))
             ELSE ExtractFrom(s, pos + 1, footnotes)

extract_footnotes(s) == ExtractFrom(s, 1, <<>>)

Keys(footnotes) == {footnotes[k].num : k \in 1 .. Len(footnotes)}
Get(footnotes, key) ==
    footnotes[CHOOSE k \in 1 .. Len(footnotes) : footnotes[k].num = key].body

(***************************************************************************)
(* WordProcessor.remove_footnote_content_from_main                         *)
(***************************************************************************)
RECURSIVE RemoveBodies(_, _)
\* the loop over footnotes.items()
RemoveBodies(cleaned_text, items) ==
    IF items = <<>> THEN cleaned_text
    ELSE RemoveBodies(RemoveAllFrom(cleaned_text, 1, Head(items).body),
                      Tail(items))

remove_footnote_content_from_main(s, footnotes) ==
    LET removed == RemoveBodies(s, footnotes)
        few_newlines == SquashRuns(removed, 1, NL, 3, 2)
        few_spaces == SquashRuns(few_newlines, 1, SP, 1, 1)
    IN  Strip(few_spaces)

(***************************************************************************)
(* WordProcessor.detect_arabic_text                                        *)
(***************************************************************************)
detect_arabic_text(s) == \E k \in 1 .. Len(s) : IsArabic(s[k])

(***************************************************************************)
(* WordProcessor.process_to_word                                           *)
(* inline_ref_pattern = \(\s*(\d+)\s*\)                                    *)
(***************************************************************************)
\* inline_ref_pattern matched at index p
MatchInlineAt(s, p) ==
    IF ~(p <= Len(s) /\ s[p] = "(") THEN NoMatch
    ELSE LET first == SkipSpace(s, p + 1)
             last == SkipDigits(s, first)
             close == SkipSpace(s, last)
         IN  IF last > first /\ close <= Len(s) /\ s[close] = ")"
             THEN [ok |-> TRUE, num |-> SubSeq(s, first, last - 1),
                   body |-> SubSeq(s, p, close), end |-> close + 1]
             ELSE NoMatch

RECURSIVE InlineRefsFrom(_, _)
\* inline_ref_pattern.finditer(main_text): the matches in document order, each
\* with its number (group 1), its text (group 0) and its start
InlineRefsFrom(s, pos) ==
    IF pos > Len(s) THEN <<>>
    ELSE LET m == MatchInlineAt(s, pos)
         IN  IF m.ok
             THEN <<[num |-> m.num, marker |-> m.body, start |-> pos]>>
                      \o InlineRefsFrom(s, m.end)
             ELSE InlineRefsFrom(s, pos + 1)

\* document.FindString(marker, False, True) on the document holding main_text:
\* the first occurrence of the marker, or None (0) when the search of the
\* target document does not locate it
FindString(main_text, marker, located) ==
    IF located THEN FindFrom(main_text, 1, marker) ELSE 0

AlreadyInsertedIgnored(num, footnotes, inserted_refs) ==
    num \notin Keys(footnotes)
\* the guard of the insertion loop: `continue`
SkipRef(num, footnotes, inserted_refs) ==
    num \notin Keys(footnotes) \/ num \in Range(inserted_refs)

RECURSIVE InsertFootnotes(_, _, _, _, _)
\* Step 5, the loop over the inline markers. inserted_refs is kept in the
\* order of insertion; created lists the footnotes appended to the document
\* (number, anchor position, body); lost holds the numbers whose marker
\* FindString does not locate
InsertFootnotes(refs, main_text, footnotes, lost, acc) ==
    IF refs = <<>> THEN acc
    ELSE LET match == Head(refs)
             num == match.num
         IN  IF SkipRef(num, footnotes, acc.inserted_refs)
             THEN InsertFootnotes(Tail(refs), main_text, footnotes, lost, acc)
             ELSE LET note_text == Get(footnotes, num)
                      selection ==
                          FindString(main_text, match.marker, num \notin lost)
                      inserted == Append(acc.inserted_refs, num)
                  IN  InsertFootnotes(Tail(refs), main_text, footnotes, lost,
                          [inserted_refs |-> inserted,
                           created |->
                               IF selection # 0
                               THEN Append(acc.created,
                                           [num |-> num, at |-> selection,
                                            body |-> note_text])
                               ELSE acc.created])

Direction(language, main_text) ==
    IF language = "rtl" \/ (language = "auto" /\ detect_arabic_text(main_text))
    THEN "rtl" ELSE "ltr"

\* Steps 1 to 3
Prepare(markdown_content) ==
    LET clean_text == clean_markdown_text(markdown_content)
        footnotes == extract_footnotes(clean_text)
    IN  [clean_text |-> clean_text, footnotes |-> footnotes,
         main_text |-> remove_footnote_content_from_main(clean_text, footnotes)]

NoInsertions == [inserted_refs |-> <<>>, created |-> <<>>]

NoWord ==
    [pc |-> "idle", success |-> FALSE, word_file |-> <<>>,
     footnotes_count |-> 0, total_footnotes_detected |-> 0,
     language |-> "none", requested_language |-> "none", lost |-> {},
     clean_text |-> <<>>, footnotes |-> <<>>, main_text |-> <<>>,
     inserted_refs |-> <<>>, created |-> <<>>]

\* processed_document_{len(inserted_refs)}_footnotes.docx in output_dir
OutputFile(inserted_refs) == <<"processed_document", Len(inserted_refs), "footnotes.docx">>

Languages == {"auto", "ltr", "rtl"}

\* the numbers the insertion loop looks up in the document
Looked(refs, footnotes) ==
    {refs[k].num : k \in 1 .. Len(refs)} \cap Keys(footnotes)

\* what the call has computed when it reaches Step 6
Computed(prepared, done, lost) ==
    [NoWord EXCEPT
        !.pc = "done", !.lost = lost,
        !.clean_text = prepared.clean_text,
        !.footnotes = prepared.footnotes,
        !.main_text = prepared.main_text,
        !.inserted_refs = done.inserted_refs,
        !.created = done.created]

\* Steps 6 and 7 and the returned dict. saves = FALSE: SaveToFile (or another
\* call of the try block) raises and the except branch answers
Returned(computed, language, saves) ==
    IF saves
    THEN [computed EXCEPT
             !.requested_language = language,
             !.success = TRUE,
             !.word_file = OutputFile(computed.inserted_refs),
             !.footnotes_count = Len(computed.inserted_refs),
             !.total_footnotes_detected = Len(computed.footnotes),
             !.language = Direction(language, computed.main_text)]
    ELSE [computed EXCEPT !.requested_language = language]

\* what SaveToFile writes: the body text and the footnotes of the document
DocumentOf(computed) ==
    [main_text |-> computed.main_text, created |-> computed.created]

\* document.SaveToFile(str(output_file), FileFormat.Docx2016): the file at the
\* path is created or replaced
SaveToFile(files, output_file, document) ==
    {f \in files : f.path # output_file}
        \cup {[path |-> output_file, document |-> document]}

\* the outputs directory after Step 6
Saved(files, computed, saves) ==
    IF saves
    THEN SaveToFile(files, OutputFile(computed.inserted_refs), DocumentOf(computed))
    ELSE files

ProcessToWordReturn(computed) ==
    \E language \in Languages, saves \in BOOLEAN :
        /\ word' = Returned(computed, language, saves)
        /\ disk' = Saved(disk, computed, saves)

\* Step 5 on the inline markers `refs` of main_text; lost holds the numbers
\* whose marker FindString does not locate
ProcessToWordInsert(prepared, refs) ==
    \E lost \in SUBSET Looked(refs, prepared.footnotes) :
        ProcessToWordReturn(
            Computed(prepared,
                     InsertFootnotes(refs, prepared.main_text,
                                     prepared.footnotes, lost, NoInsertions),
                     lost))

Backward(seq) == [k \in 1 .. Len(seq) |-> seq[Len(seq) + 1 - k]]
ProcessToWordFromLastMarker(prepared) ==
    ProcessToWordInsert(prepared, Backward(InlineRefsFrom(prepared.main_text, 1)))

\* Steps 4 to 7 on the outcome `prepared` of Steps 1 to 3
ProcessToWordFrom(prepared) ==
    ProcessToWordInsert(prepared, InlineRefsFrom(prepared.main_text, 1))

\* one call process_to_word(markdown_content, output_dir, language)
process_to_word ==
    /\ word.pc = "idle"
    /\ ProcessToWordFrom(Prepare(text))
    /\ UNCHANGED <<file, request, detection, outcome, text, strip, calls, server>>

(***************************************************************************)
(* The markdown texts: every concatenation of at most MaxPieces pieces.    *)
(***************************************************************************)
Pieces ==
    { <<"(", "1", ")">>,                          \* an inline marker
      <<"(", "2", ")">>,
      <<"(", SP, "1", ")">>,                      \* the same number, spaced
      <<"(", "ar1", ")">>,                        \* in Arabic-Indic digits
      <<NL, "(", "1", ")", SP, "a", "b">>,        \* a definition line
      <<NL, "(", "2", ")", SP, "b">>,
      <<NL, "(", "ar1", ")", SP, "a", "b">>,
      <<"a">>, <<"b">>, <<SP>>, <<NL>>,
      <<"-", "-", "-">>, <<"<", "!", "-", "-">>, <<"-", "-", ">">> }

RECURSIVE TextsOf(_)
TextsOf(n) ==
    IF n = 0 THEN {<<>>}
    ELSE LET shorter == TextsOf(n - 1)
         IN  shorter \cup {t \o p : t \in shorter, p \in Pieces}

Texts == TextsOf(MaxPieces)
\* the texts of the two concurrent calls, and the markdown an engine returns
CallTexts == TextsOf(CallPieces)

(***************************************************************************)
(* Two process_to_word calls through the one PDFProcessor of server.py.    *)
(* process_to_word has no await: a call runs from its first line to its    *)
(* return without the other call running in between.                       *)
(***************************************************************************)
NoCalls == <<>>
Callers == {1, 2}

CallReturn(caller, computed) ==
    \E language \in Languages, saves \in BOOLEAN :
        /\ calls' = [calls EXCEPT ![caller].word = Returned(computed, language, saves)]
        /\ disk' = Saved(disk, computed, saves)

CallInsert(caller, prepared, refs) ==
    \E lost \in SUBSET Looked(refs, prepared.footnotes) :
        CallReturn(caller,
            Computed(prepared,
                     InsertFootnotes(refs, prepared.main_text,
                                     prepared.footnotes, lost, NoInsertions),
                     lost))

CallFrom(caller, prepared) ==
    CallInsert(caller, prepared, InlineRefsFrom(prepared.main_text, 1))

\* one of the two calls process_to_word(markdown_content, "outputs", language)
process_to_word_call(caller) ==
    /\ calls # NoCalls
    /\ calls[caller].word.pc = "idle"
    /\ CallFrom(caller, Prepare(calls[caller].text))
    /\ UNCHANGED <<file, request, detection, outcome, text, word, strip, server>>

(***************************************************************************)
(* The request handlers of server.py that write the upload to a temporary  *)
(* file: process_pdf_internal and export_to_word.  `file` is the uploaded  *)
(* content, which the handler's temporary file holds.                      *)
(***************************************************************************)
NoServer ==
    [pc |-> "idle", handler |-> "none", status_code |-> 0,
     temp_created |-> FALSE, temp_exists |-> FALSE, word_export |-> FALSE]

\* raise HTTPException(status_code=400) before the try block
NotAPdf(handler) ==
    [NoServer EXCEPT !.pc = "raised", !.handler = handler, !.status_code = 400]

\* the except branch: os.unlink(temp_path) if 'temp_path' in locals() and the
\* file exists, then raise HTTPException(status_code=500)
OnException(handler, temp_path_bound) ==
    [NoServer EXCEPT !.pc = "raised", !.handler = handler, !.status_code = 500,
                     !.temp_created = TRUE, !.temp_exists = ~temp_path_bound]

\* os.unlink(temp_path), then return
Answered(handler, word_export) ==
    [NoServer EXCEPT !.pc = "returned", !.handler = handler, !.status_code = 200,
                     !.temp_created = TRUE, !.temp_exists = FALSE,
                     !.word_export = word_export]

\* the mode strings a client sends to /export/word; "turbo" is no ProcessingMode
ModeStrings == ProcessingMode \cup {"turbo"}

\* the handler up to temp_path = temp_file.name. is_pdf: the file name ends in
\* .pdf; uploaded: file.read() and temp_file.write() return (otherwise one of
\* them raises inside the with block, before temp_path is bound)
ReceiveFails(handler, is_pdf, uploaded) ==
    /\ ~(is_pdf /\ uploaded)
    /\ server' = IF ~is_pdf THEN NotAPdf(handler) ELSE OnException(handler, FALSE)
    /\ UNCHANGED <<request, detection, outcome, text, word, disk>>

\* an exception leaves processor.process_pdf (the calls outside its try
\* blocks): the except branch of the handler answers
ProcessingEscapes(handler) ==
    /\ server' = OnException(handler, TRUE)
    /\ UNCHANGED <<request, detection, outcome, text, word, disk>>

ProcessPdfInternalBody(found) ==
    \/ \E is_pdf, uploaded \in BOOLEAN :
           ReceiveFails("process_pdf_internal", is_pdf, uploaded)
    \/ ProcessingEscapes("process_pdf_internal")
    \/ \E mode \in ProcessingMode, auto_detect \in BOOLEAN,
           engine_outcome \in EngineOutcomes :
           /\ ProcessPdfBody(found, mode, auto_detect, engine_outcome)
           /\ server' = Answered("process_pdf_internal", FALSE)
           /\ UNCHANGED <<text, word, disk>>

\* one request to /process/fast, /process/rich or /process/pro
process_pdf_internal ==
    /\ server.pc = "idle"
    /\ ProcessPdfInternalBody(detect_pdf_type(file))
    /\ UNCHANGED <<file, strip, calls>>

\* export_to_word from processor.process_pdf on, mode being a ProcessingMode
ExportProcessed(found, mode, engine_outcome) ==
    /\ ProcessPdfBody(found, mode, TRUE, engine_outcome)
    /\ IF ~outcome'.result.success
       THEN /\ server' = Answered("export_to_word", FALSE)
            /\ UNCHANGED <<text, word, disk>>
       ELSE /\ server' = Answered("export_to_word", TRUE)
            /\ \E markdown_content \in CallTexts :
                   /\ text' = markdown_content
                   /\ ProcessToWordFrom(Prepare(markdown_content))

ExportToWordBody(found) ==
    \/ \E is_pdf, uploaded \in BOOLEAN :
           ReceiveFails("export_to_word", is_pdf, uploaded)
    \/ ProcessingEscapes("export_to_word")
    \/ \E mode \in ModeStrings, engine_outcome \in EngineOutcomes :
           IF mode \notin ProcessingMode
           THEN \* ProcessingMode(mode) raises ValueError
                /\ server' = OnException("export_to_word", TRUE)
                /\ UNCHANGED <<request, detection, outcome, text, word, disk>>
           ELSE ExportProcessed(found, mode, engine_outcome)

\* one request to /export/word
export_to_word ==
    /\ server.pc = "idle"
    /\ ExportToWordBody(detect_pdf_type(file))
    /\ UNCHANGED <<file, strip, calls>>

(***************************************************************************)
(* The two footnote functions called directly on a text.                   *)
(***************************************************************************)
NoStrip == [pc |-> "idle", footnotes |-> <<>>, main_text |-> <<>>]

Stripped(s, footnotes) ==
    [pc |-> "done", footnotes |-> footnotes,
     main_text |-> remove_footnote_content_from_main(s, footnotes)]

\* footnotes = extract_footnotes(text), then
\* remove_footnote_content_from_main(text, footnotes)
extract_then_remove ==
    /\ strip.pc = "idle"
    /\ strip' = Stripped(text, extract_footnotes(text))
    /\ UNCHANGED <<file, request, detection, outcome, text, word, calls, disk, server>>

\* remove_footnote_content_from_main(text, footnotes) on a map the caller built
remove_given ==
    /\ strip.pc = "given"
    /\ strip' = Stripped(text, strip.footnotes)
    /\ UNCHANGED <<file, request, detection, outcome, text, word, calls, disk, server>>

(***************************************************************************)
(* SpecPdf: a file on disk, then one process_pdf request against it.       *)
(***************************************************************************)
InitPdf ==
    /\ file \in Files
    /\ request = Idle
    /\ detection = NotDetected
    /\ outcome = NoOutcome
    /\ text = <<>>
    /\ word = NoWord
    /\ strip = NoStrip
    /\ calls = NoCalls
    /\ disk = {}
    /\ server = NoServer

NextPdf == process_pdf

SpecPdf == InitPdf /\ [][NextPdf]_vars

(***************************************************************************)
(* SpecWord: a markdown text, then one process_to_word request on it.      *)
(***************************************************************************)
InitWord ==
    /\ file = MissingFile
    /\ request = Idle
    /\ detection = NotDetected
    /\ outcome = NoOutcome
    /\ text \in Texts
    /\ word = NoWord
    /\ strip = NoStrip
    /\ calls = NoCalls
    /\ disk = {}
    /\ server = NoServer

NextWord == process_to_word

SpecWord == InitWord /\ [][NextWord]_vars

(***************************************************************************)
(* SpecExtract: a text, then extract_footnotes and                         *)
(* remove_footnote_content_from_main applied to it as it is.               *)
(***************************************************************************)
InitExtract ==
    /\ file = MissingFile
    /\ request = Idle
    /\ detection = NotDetected
    /\ outcome = NoOutcome
    /\ text \in Texts
    /\ word = NoWord
    /\ strip = NoStrip
    /\ calls = NoCalls
    /\ disk = {}
    /\ server = NoServer

NextExtract == extract_then_remove

SpecExtract == InitExtract /\ [][NextExtract]_vars

(***************************************************************************)
(* SpecStrip: a text and a footnote map, then                              *)
(* remove_footnote_content_from_main applied to them.                      *)
(***************************************************************************)
\* the maps: at most two numbers, in either order of insertion
Numbers == {<<"1">>, <<"2">>}
Bodies == {<<"a">>, <<"b">>, <<"a", "b">>, <<"(", "1", ")">>}
Items == [num : Numbers, body : Bodies]
Maps ==
    {<<>>} \cup {<<one>> : one \in Items}
           \cup {<<pair[1], pair[2]>> :
                    pair \in {q \in Items \X Items : q[1].num # q[2].num}}

InitStrip ==
    /\ file = MissingFile
    /\ request = Idle
    /\ detection = NotDetected
    /\ outcome = NoOutcome
    /\ text \in Texts
    /\ word = NoWord
    /\ strip \in {[NoStrip EXCEPT !.pc = "given", !.footnotes = map] : map \in Maps}
    /\ calls = NoCalls
    /\ disk = {}
    /\ server = NoServer

NextStrip == remove_given

SpecStrip == InitStrip /\ [][NextStrip]_vars

(***************************************************************************)
(* SpecCalls: two documents, then one process_to_word call on each, in     *)
(* either order.                                                           *)
(***************************************************************************)
InitCalls ==
    /\ file = MissingFile
    /\ request = Idle
    /\ detection = NotDetected
    /\ outcome = NoOutcome
    /\ text = <<>>
    /\ word = NoWord
    /\ strip = NoStrip
    /\ calls \in {[caller \in Callers |-> [text |-> pair[caller], word |-> NoWord]] :
                     pair \in {q \in CallTexts \X CallTexts : q[1] # q[2]}}
    /\ disk = {}
    /\ server = NoServer

NextCalls == \E caller \in Callers : process_to_word_call(caller)

SpecCalls == InitCalls /\ [][NextCalls]_vars

(***************************************************************************)
(* SpecServer: an upload, then one request to a handler that stores it in  *)
(* a temporary file.                                                       *)
(***************************************************************************)
\* the uploads: the unreadable file and the documents of at most one page
Uploads == {f \in Files : f.present /\ f.total_pages <= 1}

InitServer ==
    /\ file \in Uploads
    /\ request = Idle
    /\ detection = NotDetected
    /\ outcome = NoOutcome
    /\ text = <<>>
    /\ word = NoWord
    /\ strip = NoStrip
    /\ calls = NoCalls
    /\ disk = {}
    /\ server = NoServer

NextServer == process_pdf_internal \/ export_to_word

SpecServer == InitServer /\ [][NextServer]_vars

(***************************************************************************)
(* Properties of process_pdf and detect_pdf_type (SpecPdf).                *)
(***************************************************************************)
Done == request.pc = "done"
\* the request reached the classifier and the document opened
Classified == Done /\ file.present /\ detection.opened
Rejected ==
    /\ outcome.result.success = FALSE
    /\ outcome.result.requires_upgrade = TRUE
    /\ outcome.result.recommended_mode = "pro"
    /\ outcome.result.pdf_type = detection.pdf_type
    /\ outcome.engines = <<>>
    /\ outcome.resolved_mode = "none"

\* C1: FAST or RICH against a document detected as image_based or mixed is
\* always rejected (success = false, requires_upgrade = true, the detected
\* class, recommended_mode = pro), whatever auto_detect is, and no engine runs
C1_ImageOrMixedRejected ==
    (/\ Done
     /\ file.present
     /\ detection.pdf_type \in {"image_based", "mixed"}
     /\ request.mode \in {FAST, RICH})
        => Rejected

C1_Witness ==
    /\ Done
    /\ file.present
    /\ detection.pdf_type = "mixed"
    /\ request.mode = RICH
    /\ request.auto_detect = TRUE
    /\ Rejected

C3_ZeroPagesUnknown ==
    (Classified /\ file.total_pages = 0)
        => /\ detection.pdf_type = "unknown"
           /\ detection.read = <<>>
           /\ detection.sample_indices = <<>>

C3_Witness ==
    /\ Classified
    /\ file.total_pages = 0
    /\ detection.pdf_type = "unknown"
    /\ ~detection.raised

\* the number of pages of the document that the per-page rule calls image-like
ImagePageCount(doc) ==
    Cardinality({i \in 0 .. doc.total_pages - 1 :
                    /\ ~PageAt(doc, i).raises
                    /\ ClassifyPage(PageAt(doc, i)) = "image"})
ImageLikeAt(doc, idx) ==
    ~PageAt(doc, idx).raises /\ ClassifyPage(PageAt(doc, idx)) = "image"

\* the scenario of C8: a readable 40-page document with 30 image-dominant pages
Scenario40 ==
    /\ Classified
    /\ file.total_pages = 40
    /\ ImagePageCount(file) = 30

\* C8 as stated: the 40-page document with 30 image-dominant pages has
\* image_ratio = 0.8, is image_based, and FAST against it is rejected
C8_AsStated ==
    Scenario40
        => /\ detection.image_ratio.num * 10 = 8 * detection.image_ratio.den
           /\ detection.pdf_type = "image_based"
           /\ (request.mode = FAST => Rejected)

\* C8 amended: the 40-page document is classified from its two sampled pages,
\* 0 and 20, alone: it is image_based exactly when both are image-dominant, then
\* with image_ratio = 1 and with FAST rejected (recommended_mode = pro)
C8_SampledPagesDecide ==
    Scenario40
        => /\ detection.sample_indices = <<0, 20>>
           /\ IF ImageLikeAt(file, 0) /\ ImageLikeAt(file, 20)
              THEN /\ detection.image_ratio = Frac(2, 2)
                   /\ detection.pdf_type = "image_based"
                   /\ (request.mode = FAST => Rejected)
              ELSE detection.pdf_type # "image_based"

C8_Witness ==
    /\ Scenario40
    /\ ImageLikeAt(file, 0)
    /\ ImageLikeAt(file, 20)
    /\ request.mode = FAST
    /\ Rejected

\* C9 as stated: with auto_detect, an image_based document requested in a mode
\* other than PRO is upgraded to PRO and extracted by the PRO engine
C9_AsStated ==
    (/\ Done
     /\ file.present
     /\ request.auto_detect
     /\ detection.pdf_type = "image_based"
     /\ request.mode # PRO)
        => /\ outcome.resolved_mode = PRO
           /\ outcome.engines = <<Engine(PRO)>>

\* C9 amended: with auto_detect, an image_based document requested in a mode
\* other than PRO is rejected by the validation gate; no request has its mode
\* changed: whenever an engine runs it is the engine of the requested mode
C9_NeverUpgraded ==
    Done =>
        /\ (/\ file.present
            /\ request.auto_detect
            /\ detection.pdf_type = "image_based"
            /\ request.mode # PRO) => Rejected
        /\ outcome.note # "switched_to_pro"
        /\ outcome.engines # <<>> =>
               /\ outcome.resolved_mode = request.mode
               /\ outcome.engines = <<Engine(request.mode)>>

C9_Witness ==
    /\ Done
    /\ file.present
    /\ request.auto_detect
    /\ detection.pdf_type = "image_based"
    /\ request.mode = FAST
    /\ Rejected

\* the classification failed: fitz could not open the file, or reading a
\* sampled page raised
ClassificationFailed ==
    Done /\ file.present /\ (~detection.opened \/ detection.raised)

\* C12: when classification fails (the document does not open, or an exception
\* occurs while sampling), detect_pdf_type answers unknown, and process_pdf
\* goes on: whatever the requested mode and auto_detect, the request is not
\* rejected and exactly the engine of the requested mode is run
C12_FailedClassificationNotFatal ==
    ClassificationFailed =>
        /\ detection.pdf_type = "unknown"
        /\ outcome.result.requires_upgrade = FALSE
        /\ outcome.result.error # "cannot_process"
        /\ outcome.resolved_mode = request.mode
        /\ outcome.engines = <<Engine(request.mode)>>

\* a page of the sample raises half-way, the request is FAST with auto_detect
C12_Witness ==
    /\ ClassificationFailed
    /\ detection.opened
    /\ Len(detection.read) >= 2
    /\ request.mode = FAST
    /\ request.auto_detect
    /\ outcome.engines = <<"pdfplumber">>
    /\ outcome.result.success

\* the file does not open at all, the request is RICH without auto_detect
C12_WitnessUnopened ==
    /\ ClassificationFailed
    /\ ~detection.opened
    /\ request.mode = RICH
    /\ ~request.auto_detect
    /\ outcome.engines = <<"markitdown">>

\* min(10, max(1, P // 20))
SampledOf(P) == Min(10, Max(1, P \div 20))
\* count / S > 0.6, in integers
OverMajority(count, S) == 10 * count > 6 * S

\* C15: a document of P >= 1 pages classified without exception, with
\* S = min(10, max(1, P // 20)) sampled pages, is image_based exactly when
\* image_pages / S > 0.6, otherwise text_based exactly when
\* text_pages / S > 0.6, otherwise mixed; a ratio equal to 0.6 gives mixed and
\* both thresholds are never exceeded together
C15_MajorityDecides ==
    (Classified /\ ~detection.raised /\ detection.total_pages >= 1) =>
        LET S == SampledOf(detection.total_pages)
            image == OverMajority(detection.image_pages, S)
            textual == OverMajority(detection.text_pages, S)
        IN  /\ detection.sample_size = S
            /\ detection.pdf_type = "image_based" <=> image
            /\ detection.pdf_type = "text_based" <=> (~image /\ textual)
            /\ detection.pdf_type = "mixed" <=> (~image /\ ~textual)
            /\ ~(image /\ textual)
            /\ (5 * detection.image_pages = 3 * S
                \/ (~image /\ 5 * detection.text_pages = 3 * S))
                   => detection.pdf_type = "mixed"

\* 3 image pages of 5 sampled: the ratio is 0.6 and the class is mixed
C15_Witness ==
    /\ Classified
    /\ ~detection.raised
    /\ detection.sample_size = 5
    /\ detection.image_pages = 3
    /\ detection.text_pages = 2
    /\ detection.pdf_type = "mixed"

\* the call returned before the dispatch: file not found, or upgrade required
EndedBeforeEngines ==
    outcome.result.error \in {"file_not_found", "cannot_process"}

\* C17: a process_pdf call ends either in a rejection or file-not-found error
\* with no engine invoked, or in the invocation of exactly one engine, the
\* engine of the resolved mode; with auto_detect off and no rejection the
\* resolved mode is the requested mode
C17_OneOutcome ==
    Done =>
        /\ EndedBeforeEngines <=> (~file.present \/ outcome.result.requires_upgrade)
        /\ EndedBeforeEngines =>
               /\ outcome.engines = <<>>
               /\ outcome.result.success = FALSE
               /\ outcome.result.method = "absent"
        /\ ~EndedBeforeEngines =>
               /\ Len(outcome.engines) = 1
               /\ outcome.resolved_mode \in ProcessingMode
               /\ outcome.engines[1] = Engine(outcome.resolved_mode)
               /\ outcome.result.error \in {"none", "engine_error", "unexpected_error"}
        /\ (~request.auto_detect /\ ~EndedBeforeEngines) =>
               outcome.resolved_mode = request.mode

\* PRO requested without auto_detect on a text_based document: agentic_doc runs
C17_Witness ==
    /\ Done
    /\ file.present
    /\ ~request.auto_detect
    /\ request.mode = PRO
    /\ detection.pdf_type = "text_based"
    /\ outcome.resolved_mode = PRO
    /\ outcome.engines = <<"agentic_doc">>

\* a rejection: no engine
C17_WitnessRejected ==
    /\ Done
    /\ ~request.auto_detect
    /\ EndedBeforeEngines
    /\ outcome.result.requires_upgrade
    /\ outcome.engines = <<>>

(***************************************************************************)
(* Properties of process_to_word and the footnote functions (SpecWord).    *)
(***************************************************************************)
WordDone == word.pc = "done"

Occurrences(s, pat) == {i \in 1 .. Len(s) : StartsWithAt(s, i, pat)}

\* the opening parentheses that are the first visible character of a line
LeadingParens(s) ==
    {j \in 1 .. Len(s) :
        s[j] = "(" /\ \E p \in 1 .. j : LineStart(s, p) /\ SkipSpace(s, p) = j}

Marker1 == <<"(", "1", ")">>
NoteBody == <<"a", "b">>
DefinitionLine == Marker1 \o <<SP>> \o NoteBody

\* the whole line starting at index p is DefinitionLine
IsDefinitionLineAt(s, p) ==
    /\ LineStart(s, p)
    /\ StartsWithAt(s, p, DefinitionLine)
    /\ EndOfLine(s, p) = p + Len(DefinitionLine)

\* the scenario of C4: the text holds the definition line "(1) ab", no other
\* line that starts with a parenthesis, and the marker "(1)" elsewhere
RoundTripScenario ==
    /\ WordDone
    /\ \E p \in 1 .. Len(word.clean_text) :
          /\ IsDefinitionLineAt(word.clean_text, p)
          /\ LeadingParens(word.clean_text) = {p}
          /\ Occurrences(word.clean_text, Marker1) \ {p} # {}

\* C4 as stated: in the round-trip scenario extract yields exactly
\* {"1": "ab"} and strip removes the whole definition line, marker included:
\* the body is gone and one marker "(1)" fewer is left than the text had
C4_AsStated ==
    RoundTripScenario
        => /\ word.footnotes = << [num |-> <<"1">>, body |-> NoteBody] >>
           /\ Occurrences(word.main_text, NoteBody) = {}
           /\ Cardinality(Occurrences(word.main_text, Marker1))
                = Cardinality(Occurrences(word.clean_text, Marker1)) - 1

\* C5 as stated: extract_footnotes on the output of
\* remove_footnote_content_from_main(text, extract_footnotes(text)) is empty
C5_AsStated ==
    WordDone => extract_footnotes(word.main_text) = <<>>

\* the inline markers of the cleaned text that carry the number num
RefsOf(s, num) ==
    LET refs == InlineRefsFrom(s, 1)
    IN  {k \in 1 .. Len(refs) : refs[k].num = num}
FirstRefStart(s, num) ==
    LET refs == InlineRefsFrom(s, 1)
    IN  refs[CHOOSE k \in RefsOf(s, num) : \A j \in RefsOf(s, num) : k <= j].start

\* C6: the document gets at most one footnote per reference number, however
\* often its marker occurs; the footnote sits at the first marker of that
\* number in the cleaned text and carries the body the map gives the number;
\* a number that is not a key of the map gets none
C6_OneFootnotePerNumber ==
    WordDone =>
        /\ \A i, j \in 1 .. Len(word.created) :
               word.created[i].num = word.created[j].num => i = j
        /\ \A i, j \in 1 .. Len(word.inserted_refs) :
               word.inserted_refs[i] = word.inserted_refs[j] => i = j
        /\ \A i \in 1 .. Len(word.created) :
               LET made == word.created[i]
               IN  /\ made.num \in Keys(word.footnotes)
                   /\ made.body = Get(word.footnotes, made.num)
                   /\ RefsOf(word.main_text, made.num) # {}
                   /\ made.at = FirstRefStart(word.main_text, made.num)

C6_Witness ==
    /\ WordDone
    /\ word.success
    /\ \E i \in 1 .. Len(word.created) :
          /\ Cardinality(RefsOf(word.main_text, word.created[i].num)) >= 3
          /\ word.created[i].at
                = FirstRefStart(word.main_text, word.created[i].num)
          /\ Len(word.created) = 1

\* the same input written with Western digits
Westernized(s) == [k \in 1 .. Len(s) |-> Translate(s[k])]

\* what process_to_word computes on markdown_content when every marker is located
Processed(markdown_content) ==
    LET prepared == Prepare(markdown_content)
        done == InsertFootnotes(InlineRefsFrom(prepared.main_text, 1),
                                prepared.main_text, prepared.footnotes, {},
                                NoInsertions)
    IN  [keys |-> Keys(prepared.footnotes),
         inserted_refs |-> done.inserted_refs,
         anchors |-> [k \in 1 .. Len(done.created) |-> done.created[k].at],
         footnotes_count |-> Len(done.inserted_refs),
         total_footnotes_detected |-> Len(prepared.footnotes)]

\* C7 as stated: process_to_word gives an input with Arabic-Indic footnote
\* numbers the footnote map keys, the inserted numbers and the counts of the
\* same input written with Western digits
C7_AsStated ==
    (WordDone /\ word.success /\ word.lost = {})
        => LET western == Processed(Westernized(text))
           IN  /\ Keys(word.footnotes) = western.keys
               /\ word.inserted_refs = western.inserted_refs
               /\ word.footnotes_count = western.footnotes_count
               /\ word.total_footnotes_detected
                    = western.total_footnotes_detected

\* C10 as stated: a footnote whose marker FindString does not locate is not
\* counted: footnotes_count is the number of footnotes created in the
\* document, and total_footnotes_detected - footnotes_count the number of
\* detected footnotes that were not created
C10_AsStated ==
    (WordDone /\ word.success)
        => /\ word.footnotes_count = Len(word.created)
           /\ word.total_footnotes_detected - word.footnotes_count
                = Cardinality(Keys(word.footnotes)
                              \ {word.created[k].num : k \in 1 .. Len(word.created)})

\* the start of the first inline marker of number num among the matches refs
FirstMarker(refs, num) ==
    LET starts == {refs[k].start : k \in {j \in 1 .. Len(refs) : refs[j].num = num}}
    IN  CHOOSE least \in starts : \A other \in starts : least <= other

\* C16: footnotes are inserted in the order in which their numbers first occur
\* as inline markers in the cleaned text, not in numeric order: when the first
\* marker of a precedes the first marker of b and both are inserted, the
\* footnote of a is inserted before the footnote of b
C16_InsertedInMarkerOrder ==
    WordDone =>
        LET refs == InlineRefsFrom(word.main_text, 1)
        IN  /\ \A i, j \in 1 .. Len(word.created) :
                   FirstMarker(refs, word.created[i].num)
                       < FirstMarker(refs, word.created[j].num) => i < j
            /\ \A i, j \in 1 .. Len(word.inserted_refs) :
                   FirstMarker(refs, word.inserted_refs[i])
                       < FirstMarker(refs, word.inserted_refs[j]) => i < j

\* the marker of 2 comes first in the text: the footnote of 2 is inserted
\* before the footnote of 1
C16_Witness ==
    /\ WordDone
    /\ word.success
    /\ Len(word.created) = 2
    /\ word.created[1].num = <<"2">>
    /\ word.created[2].num = <<"1">>
    /\ word.created[1].at < word.created[2].at

(***************************************************************************)
(* Properties of the footnote functions called directly (SpecExtract).     *)
(***************************************************************************)
StripDone == strip.pc = "done"

\* no line of s matches footnote_pattern
NoDefinitionLine(s) ==
    \A p \in 1 .. Len(s) : LineStart(s, p) => ~MatchFootnoteAt(s, p).ok

\* s without its spaces and newlines
Visible(s) == SelectSeq(s, LAMBDA c : ~IsSpace(c))

\* s has no whitespace at its ends, no two spaces and no three newlines in a row
Tidy(s) ==
    /\ s # <<>> => ~IsSpace(s[1]) /\ ~IsSpace(s[Len(s)])
    /\ Occurrences(s, <<SP, SP>>) = {}
    /\ Occurrences(s, <<NL, NL, NL>>) = {}

\* C11 as stated: on a text with no line matching the definition pattern,
\* extract_footnotes returns an empty map and
\* remove_footnote_content_from_main returns the text unmodified
C11_AsStated ==
    (StripDone /\ NoDefinitionLine(text)) =>
        /\ strip.footnotes = <<>>
        /\ strip.main_text = text

\* C11 amended: on a text with no line matching the definition pattern,
\* extract_footnotes returns an empty map and
\* remove_footnote_content_from_main changes whitespace only: every visible
\* character is kept in order, the result has no whitespace at its ends, no
\* run of spaces and no run of three newlines, and a text already of that
\* form is returned unmodified
C11_OnlyWhitespaceChanges ==
    (StripDone /\ NoDefinitionLine(text)) =>
        /\ strip.footnotes = <<>>
        /\ Visible(strip.main_text) = Visible(text)
        /\ Tidy(strip.main_text)
        /\ Tidy(text) => strip.main_text = text

\* a text without definition line whose whitespace the call changes
C11_Witness ==
    /\ StripDone
    /\ NoDefinitionLine(text)
    /\ Visible(text) # <<>>
    /\ ~Tidy(text)
    /\ strip.footnotes = <<>>
    /\ strip.main_text # text

\* C14 as stated: after remove_footnote_content_from_main(text, footnotes) no
\* literal occurrence of any body of the map is left in the returned text,
\* whatever the order of the map, also when one body is part of another or a
\* removal joins the text around it
C14_AsStated ==
    StripDone =>
        \A k \in 1 .. Len(strip.footnotes) :
            Occurrences(strip.main_text, strip.footnotes[k].body) = {}

\* the same map in its other order leaves a different text: the outcome
\* depends on the order of the map
C14_OrderMatters ==
    /\ StripDone
    /\ Len(strip.footnotes) = 2
    /\ strip.main_text
         # remove_footnote_content_from_main(text, Backward(strip.footnotes))

(***************************************************************************)
(* Properties of two calls through the shared processor (SpecCalls).       *)
(***************************************************************************)
CallDone(caller) == calls # NoCalls /\ calls[caller].word.pc = "done"

\* the file at the path the call returned holds the call's document
HoldsOwnDocument(caller) ==
    \E f \in disk :
        /\ f.path = calls[caller].word.word_file
        /\ f.document = DocumentOf(calls[caller].word)

\* C13 as stated: for two process_to_word calls on different documents through
\* the shared processor, in any order, the word_file each call returned holds
\* that call's own document: neither call overwrites what the other wrote
C13_AsStated ==
    \A caller \in Callers :
        (CallDone(caller) /\ calls[caller].word.success) =>
            HoldsOwnDocument(caller)

(***************************************************************************)
(* Properties of the request handlers (SpecServer).                        *)
(***************************************************************************)
HandlerEnded == server.pc \in {"returned", "raised"}

\* C18 as stated: the temporary PDF file a handler created is deleted by the
\* time the handler returns or raises, on every path: success, rejection by
\* the mode policy, an invalid mode string, an exception while reading the
\* upload or during processing
C18_AsStated ==
    (HandlerEnded /\ server.temp_created) => ~server.temp_exists

\* the paths on which the temporary file is deleted: every path that has
\* passed the with block
C18_DeletedOncePathBound ==
    /\ HandlerEnded
    /\ server.handler = "export_to_word"
    /\ server.status_code = 500
    /\ server.temp_created
    /\ ~server.temp_exists

====
